---- MODULE Spec2Model ----
(***************************************************************************)
(* The listings store of craftnest-backend (src/index.js): five HTTP       *)
(* handlers that each read the whole listings.json document, change the    *)
(* array in memory and write the whole document back.  Every `await` of a  *)
(* handler is a point where another request's steps may run.               *)
(***************************************************************************)
EXTENDS Integers, Sequences, FiniteSets, Bags, TLC

\* ---- bounds of the model ----
MaxInFlight == 2     \* requests that may be in flight at once
MaxRequests == 3     \* requests started in one behaviour
MaxSeqRequests == 4  \* requests started in one behaviour, one at a time
MaxClock == 1        \* last reading of Date.now()

\* A JSON field that the request body does not carry.
Undefined == "<undefined>"

\* req.body.price arrives as a JSON number, a JSON string, or not at all.
NoPrice == [k |-> "absent", n |-> 0, s |-> ""]
NumPrice(n) == [k |-> "num", n |-> n, s |-> ""]
StrPrice(s) == [k |-> "str", n |-> 0, s |-> s]

\* JavaScript truthiness of the values a body field can hold.
FalsyStr(v) == v = Undefined \/ v = ""
FalsyPrice(p) == \/ p.k = "absent"
                 \/ p.k = "num" /\ p.n = 0
                 \/ p.k = "str" /\ p.s = ""

\* Number(price): a number is itself, a numeric string is parsed.
Number(p) == IF p.k = "num" THEN p.n
             ELSE IF p.s = "20" THEN 20
             ELSE 0

\* The request bodies POST /listings is tried with.
Lamp == [title |-> "Lamp", price |-> StrPrice("20"), description |-> "IKEA",
         contact |-> "a@b.com", imageUrl |-> Undefined]
Bodies == { Lamp,
            [Lamp EXCEPT !.title = Undefined],
            [Lamp EXCEPT !.price = NumPrice(0)],
            [Lamp EXCEPT !.price = NoPrice],
            [Lamp EXCEPT !.description = ""],
            [Lamp EXCEPT !.contact = Undefined] }
NoBody == [title |-> Undefined, price |-> NoPrice, description |-> Undefined,
           contact |-> Undefined, imageUrl |-> Undefined]

\* Date.now().toString(): the decimal rendering of the clock reading.
IdOf(t) == ToString(t)

\* The :id path parameters the requests are tried with.
IdParams == { IdOf(t) : t \in (-1)..MaxClock }
NoId == ""

Ops == {"list", "create", "like", "buy", "delete"}

VARIABLES
    store,      \* the array last written in full to listings.json
    readable,   \* whether listings.json currently exists and parses
    now,        \* the reading of Date.now()
    req,        \* the handler invocations in flight (a bag: two may be alike)
    started,    \* number of requests started so far
    last        \* the response sent last

vars == <<store, readable, now, req, started, last>>

\* The validation with the price test left out.
MissingRequiredNoPrice(body) ==
    \/ FalsyStr(body.title)
    \/ FalsyStr(body.description)
    \/ FalsyStr(body.contact)

\* !title || !price || !description || !contact
MissingRequired(body) ==
    \/ FalsyStr(body.title)
    \/ FalsyPrice(body.price)
    \/ FalsyStr(body.description)
    \/ FalsyStr(body.contact)

\* A scan that keeps the last match instead of stopping at the first.
FindLastIndex(listings, id) ==
    IF \E i \in 1..Len(listings) : listings[i].id = id
    THEN CHOOSE i \in 1..Len(listings) :
            /\ listings[i].id = id
            /\ \A j \in (i + 1)..Len(listings) : listings[j].id # id
    ELSE 0

\* listings.findIndex(l => l.id === id), counted from 1; 0 stands for -1.
FindIndex(listings, id) ==
    IF \E i \in 1..Len(listings) : listings[i].id = id
    THEN CHOOSE i \in 1..Len(listings) :
            /\ listings[i].id = id
            /\ \A j \in 1..(i - 1) : listings[j].id # id
    ELSE 0

\* the newListing object literal of POST /listings
NewListing(body, t) ==
    [id |-> IdOf(t),
     title |-> body.title,
     price |-> Number(body.price),
     description |-> body.description,
     contact |-> body.contact,
     imageUrl |-> IF FalsyStr(body.imageUrl) THEN "" ELSE body.imageUrl,
     likes |-> 0,
     sold |-> FALSE,
     createdAt |-> t]

\* An increment applied twice.
LikeTwice(l) == [l EXCEPT !.likes = @ + 2]

\* listing.likes += 1
LikeListing(l) == [l EXCEPT !.likes = @ + 1]

\* listing.sold = true
BuyListing(l) == [l EXCEPT !.sold = TRUE]

\* listings.splice(index, 1)
Splice(listings, index) ==
    [i \in 1..(Len(listings) - 1) |->
        IF i < index THEN listings[i] ELSE listings[i + 1]]

\* readListings: the parsed document, or [] when reading or parsing throws.
readListings == IF readable THEN store ELSE <<>>

\* A handler invocation that has just been dispatched.
Arrived == [pc |-> "read", op |-> "list", id |-> NoId, body |-> NoBody,
            readOk |-> TRUE, snapshot |-> <<>>, listings |-> <<>>,
            afterBuy |-> FALSE]

One(h) == SetToBag({h})

NoResponse == [op |-> "list", id |-> NoId, status |-> 0, likes |-> 0,
               removedId |-> NoId, readOk |-> TRUE, seen |-> 0,
               afterBuy |-> FALSE]

\* The response of handler h with status `code`.  `likes` is listing.likes
\* of the like handler and `removedId` is removed.id of the delete handler;
\* `seen` is the likes count the like handler had read.
Response(h, code) ==
    LET index == FindIndex(h.snapshot, h.id)
        found == h.op \in {"like", "delete"} /\ code = 200 /\ index # 0
    IN [op |-> h.op, id |-> h.id, status |-> code,
        likes |-> IF found /\ h.op = "like"
                  THEN h.listings[FindIndex(h.listings, h.id)].likes ELSE 0,
        removedId |-> IF found /\ h.op = "delete" THEN h.snapshot[index].id ELSE NoId,
        readOk |-> h.readOk,
        seen |-> IF found /\ h.op = "like" THEN h.snapshot[index].likes ELSE 0,
        afterBuy |-> h.afterBuy]

\* listings.json as the process finds it: created empty by
\* ensureListingsFileExists, or left by an earlier run of the server.
Old == [NewListing(Lamp, -1) EXCEPT !.likes = 1]
InitialDocuments == { <<>>, <<Old>> }

Init ==
    /\ store \in InitialDocuments
    /\ readable = TRUE
    /\ now = 0
    /\ req = EmptyBag
    /\ started = 0
    /\ last = NoResponse

\* A request arrives.  POST /listings validates the body before its first
\* await; every other handler goes straight to `await readListings()`.
StartUpTo(max) ==
    /\ BagCardinality(req) < MaxInFlight
    /\ started < max
    /\ started' = started + 1
    /\ \E op \in Ops :
       \E id \in (IF op \in {"like", "buy", "delete"} THEN IdParams ELSE {NoId}) :
       \E body \in (IF op = "create" THEN Bodies ELSE {NoBody}) :
         LET h == [Arrived EXCEPT !.op = op, !.id = id, !.body = body,
                      !.afterBuy = /\ op = "buy"
                                   /\ last.op = "buy"
                                   /\ last.id = id
                                   /\ last.status = 200]
         IN IF op = "create" /\ MissingRequired(body)
            THEN /\ req' = req
                 /\ last' = Response(h, 400)
            ELSE /\ req' = req (+) One(h)
                 /\ last' = last
    /\ UNCHANGED <<store, readable, now>>

Start == StartUpTo(MaxRequests)

\* `await readListings()` returns and handler h runs up to its next await.
Read(h) ==
    /\ h.pc = "read"
    /\ LET listings == readListings
           index == FindIndex(listings, h.id)
           got == [h EXCEPT !.readOk = readable, !.snapshot = listings,
                            !.listings = listings]
           respond(code) == /\ req' = req (-) One(h)
                            /\ last' = Response(got, code)
           write(new) == /\ req' = (req (-) One(h)) (+)
                                   One([got EXCEPT !.pc = "write", !.listings = new])
                         /\ last' = last
       IN CASE h.op = "list" -> respond(200)
            [] h.op = "create" ->
                 write(Append(listings, NewListing(h.body, now)))
            [] h.op = "like" ->
                 IF index = 0 THEN respond(404)
                 ELSE write([listings EXCEPT ![index] = LikeListing(@)])
            [] h.op = "buy" ->
                 IF index = 0 THEN respond(404)
                 ELSE IF listings[index].sold THEN respond(400)
                 ELSE write([listings EXCEPT ![index] = BuyListing(@)])
            [] h.op = "delete" ->
                 IF index = 0 THEN respond(404)
                 ELSE write(Splice(listings, index))
    /\ UNCHANGED <<store, readable, now, started>>

\* fs.writeFile opens listings.json with flag "w": the document is truncated
\* and stays unparseable until the new text has been written.
WriteOpen(h) ==
    /\ h.pc = "write"
    /\ req' = (req (-) One(h)) (+) One([h EXCEPT !.pc = "writing"])
    /\ readable' = FALSE
    /\ UNCHANGED <<store, now, started, last>>

\* res.status(201) of POST /listings, res.json (200) of the others.
SuccessCode(op) == IF op = "create" THEN 201 ELSE 200

\* The document a completed writeListings(listings) leaves behind.
Persist(old, listings) == listings

\* writeListings resolves with this handler's text as the document.
WriteLand(h) ==
    /\ h.pc = "writing"
    /\ store' = Persist(store, h.listings)
    /\ readable' = TRUE
    /\ req' = req (-) One(h)
    /\ last' = Response(h, SuccessCode(h.op))
    /\ UNCHANGED <<now, started>>

\* Two writeFile calls on the same path are in progress together: this one
\* resolves, but the bytes of both are mixed and the document does not parse.
WriteClobber(h) ==
    /\ h.pc = "writing"
    /\ \E g \in BagToSet(req (-) One(h)) : g.pc = "writing"
    /\ readable' = FALSE
    /\ req' = req (-) One(h)
    /\ last' = Response(h, SuccessCode(h.op))
    /\ UNCHANGED <<store, now, started>>

\* fs.writeFile rejects: writeListings rethrows and the handler answers 500.
WriteFail(h) ==
    /\ h.pc \in {"write", "writing"}
    /\ req' = req (-) One(h)
    /\ last' = Response(h, 500)
    /\ UNCHANGED <<store, readable, now, started>>

\* The wall clock moves on.
Tick ==
    /\ now < MaxClock
    /\ now' = now + 1
    /\ UNCHANGED <<store, readable, req, started, last>>

Next ==
    \/ Tick
    \/ Start
    \/ \E h \in BagToSet(req) : Read(h)
    \/ \E h \in BagToSet(req) : WriteOpen(h)
    \/ \E h \in BagToSet(req) : WriteLand(h)
    \/ \E h \in BagToSet(req) : WriteClobber(h)
    \/ \E h \in BagToSet(req) : WriteFail(h)

Spec == Init /\ [][Next]_vars

\* Requests one at a time, store I/O always succeeding.
SeqStart ==
    /\ req = EmptyBag
    /\ StartUpTo(MaxSeqRequests)

NextSeq ==
    \/ Tick
    \/ SeqStart
    \/ \E h \in BagToSet(req) : Read(h)
    \/ \E h \in BagToSet(req) : WriteOpen(h)
    \/ \E h \in BagToSet(req) : WriteLand(h)

SpecSeq == Init /\ [][NextSeq]_vars

TypeOK ==
    /\ readable \in BOOLEAN
    /\ now \in 0..MaxClock
    /\ started \in 0..MaxSeqRequests
    /\ BagCardinality(req) <= MaxInFlight
    /\ \A h \in BagToSet(req) : h.pc \in {"read", "write", "writing"}

\* ------------------------------------------------------------------------
\* Properties
\* ------------------------------------------------------------------------

\* The first record of `listings` with this id; 0 when there is none.
FirstWith(listings, id) ==
    IF \E i \in 1..Len(listings) : listings[i].id = id
    THEN CHOOSE i \in 1..Len(listings) :
            /\ listings[i].id = id
            /\ \A j \in 1..(i - 1) : listings[j].id # id
    ELSE 0

\* `listings` without its element at position index.
Without(listings, index) ==
    SubSeq(listings, 1, index - 1) \o SubSeq(listings, index + 1, Len(listings))

\* Handler h sends its response in this step.
Answers(h) == BagIn(h, req) /\ req' = req (-) One(h)

\* Some request is answered in this step.
Answering == \/ started' # started /\ req' = req
             \/ BagCardinality(req') < BagCardinality(req)

\* C1: from one persisted document to the next, a listing that is still
\* present and was sold is still sold.
SoldNeverReverts ==
    [][\A id \in IdParams :
         LET i == FirstWith(store, id)
             j == FirstWith(store', id)
         IN (i # 0 /\ j # 0 /\ store[i].sold) => store'[j].sold]_vars

\* C2: from one persisted document to the next, the likes of a listing that
\* is still present do not go down.
LikesNeverDecrease ==
    [][\A id \in IdParams :
         LET i == FirstWith(store, id)
             j == FirstWith(store', id)
         IN (i # 0 /\ j # 0) => store'[j].likes >= store[i].likes]_vars

\* C3: when a like lands its write right after another like on the same
\* listing answered 200, and both had read the same count L, both answers
\* carry L + 1 and the persisted count is L + 1: one increment is lost.
LostUpdate ==
    [][\A h \in BagToSet(req) :
         LET L == last.seen
             i == FirstWith(h.snapshot, h.id)
         IN ( /\ h.op = "like" /\ h.pc = "writing"
              /\ last.op = "like" /\ last.status = 200 /\ last.id = h.id
              /\ h.snapshot[i].likes = L
              /\ Answers(h) /\ readable' /\ last'.status = 200 )
            => /\ last.likes = L + 1
               /\ last'.likes = L + 1
               /\ store'[FirstWith(store', h.id)].likes = L + 1]_vars

\* C3 witness: a like has answered 200 with L + 1 and persisted it, while a
\* second like that read the same L is writing its own L + 1.
LostUpdatePending ==
    \E h \in BagToSet(req) :
        /\ h.op = "like" /\ h.pc = "writing"
        /\ last.op = "like" /\ last.status = 200 /\ last.id = h.id
        /\ h.snapshot[FirstWith(h.snapshot, h.id)].likes = last.seen
        /\ h.listings[FirstWith(h.listings, h.id)].likes = last.seen + 1
        /\ FirstWith(store, h.id) # 0
        /\ store[FirstWith(store, h.id)].likes = last.seen + 1

\* C4: a buy that started after a buy on the same id had answered 200, and
\* that found the listing, is answered 400.
SecondBuyRejected ==
    (last.op = "buy" /\ last.afterBuy /\ last.status # 404) => last.status = 400

\* C5: a request whose read of the document failed is answered 500.
ReadFailureSurfaces ==
    ~last.readOk => last.status = 500

\* C6: a create answered 201 leaves the document that was persisted before
\* its write, with the new record added at the end.
CreateOnlyAppends ==
    [][\A h \in BagToSet(req) :
         (h.op = "create" /\ Answers(h) /\ last'.status = 201)
         => /\ readable'
            /\ store' = Append(store, h.listings[Len(h.listings)])]_vars

\* C7: the ids of the persisted listings are pairwise distinct.
IdsDistinct ==
    \A i, j \in 1..Len(store) : i # j => store[i].id # store[j].id

\* C8: a request answered 400 or 404 never opened a write and leaves the
\* document as it was; a create with a falsy title, price, description or
\* contact is answered at once and never reaches the read; 404 is answered
\* only when the id is absent from the collection that was read, and 400 by
\* buy only when the listing it read was sold.
RejectionWritesNothing ==
    [][/\ (Answering /\ last'.status \in {400, 404})
          => /\ store' = store
             /\ readable' = readable
             /\ \/ started' # started /\ last'.op = "create" /\ last'.status = 400
                \/ \E h \in BagToSet(req) :
                      /\ h.pc = "read" /\ Answers(h)
                      /\ last'.status = 404 => FirstWith(readListings, h.id) = 0
                      /\ last'.status = 400
                         => /\ h.op = "buy"
                            /\ FirstWith(readListings, h.id) # 0
                            /\ readListings[FirstWith(readListings, h.id)].sold
       /\ started' # started
          => /\ store' = store
             /\ readable' = readable
             /\ \/ req' = req /\ last'.op = "create" /\ last'.status = 400
                \/ \E h \in BagToSet(req') :
                      /\ req' = req (+) One(h)
                      /\ h.pc = "read" /\ h.snapshot = <<>>
                      /\ h.op = "create"
                         => /\ h.body.title \notin {Undefined, ""}
                            /\ h.body.description \notin {Undefined, ""}
                            /\ h.body.contact \notin {Undefined, ""}
                            /\ h.body.price \notin {NoPrice, NumPrice(0), StrPrice("")}]_vars

\* C8 witness: a like on an id that the non-empty document does not hold
\* has been answered 404.
LikeMissed ==
    /\ last.op = "like" /\ last.status = 404
    /\ readable /\ store # <<>>
    /\ FirstWith(store, last.id) = 0

DeleteRemovesOne ==
    [][\A h \in BagToSet(req) :
         /\ (h.op = "delete" /\ h.pc = "writing" /\ Answers(h))
            => LET i == FirstWith(store, h.id)
               IN /\ i # 0
                  /\ Len(store') = Len(store) - 1
                  /\ store' = Without(store, i)
                  /\ last'.status = 200
                  /\ last'.removedId = h.id
         /\ ( /\ h.op = "delete" /\ h.pc = "read" /\ req' # req
              /\ last.op = "delete" /\ last.id = h.id /\ last.status = 200 )
            => /\ Answers(h)
               /\ last'.status = 404
               /\ store' = store]_vars
====
